---- MODULE Spec2Model ----
(***************************************************************************)
(* Token-usage dashboard backend: the JWT/RBAC middleware, the             *)
(* GET /api/token-usage handler and get_token_usage_aggregated with its    *)
(* two aggregate queries over the token_usage table, which an external     *)
(* ingestion path appends to.                                              *)
(***************************************************************************)
EXTENDS Integers, Sequences, FiniteSets, Bags, TLC

VARIABLES
    store,        \* the token_usage table: a bag of rows (the id column is not read)
    pc,           \* where the request in flight is
    request,      \* the request: path, Authorization header, query parameters
    state_user,   \* request.state.user
    call,         \* the arguments get_token_usage_aggregated was called with
    session,      \* the SQLAlchemy session of the call
    usage_data,   \* local of get_token_usage_aggregated
    breakdowns,   \* local of get_token_usage_aggregated
    response,     \* the response of the request
    rows_at_usage,     \* number of table rows when the totals query ran
    rows_at_breakdown, \* number of table rows when the breakdown query ran
    environ,      \* os.environ["JWT_SECRET_KEY"] when the process started
    log,          \* the logger.error lines written for the request
    audit_user,   \* user_id, username locals of AuditLoggerMiddleware.dispatch
    audit_log,    \* the AUDIT_LOG lines written for the request
    other,        \* a second request the server has accepted meanwhile
    closes,       \* session.close() calls made on the session of the call
    ui            \* the Streamlit script: st.session_state and what a run did

vars == <<store, pc, request, state_user, call, session, usage_data,
          breakdowns, response, rows_at_usage, rows_at_breakdown,
          environ, log, audit_user, audit_log, other, closes, ui>>

----------------------------------------------------------------------------
(* Bounds *)

\* rows the ingestion path appends at most
MaxEvents == 2

----------------------------------------------------------------------------
(* Values *)

\* Python's None
None == "<None>"

\* payload.get(...) is falsy: None or the empty string
Falsy(x) == x = None \/ x = ""

RECURSIVE SeqToSet(_)
SeqToSet(s) == IF s = <<>> THEN {} ELSE {Head(s)} \cup SeqToSet(Tail(s))

----------------------------------------------------------------------------
(* Calendar: datetime, strptime("%Y-%m-%d"), strftime("%Y-%m-%d"),        *)
(* PostgreSQL date_trunc                                                   *)

\* days since 1970-01-01 of a proleptic Gregorian date
DaysFromCivil(y, m, d) ==
    LET yy  == IF m <= 2 THEN y - 1 ELSE y
        era == yy \div 400
        yoe == yy - era * 400
        mp  == IF m > 2 THEN m - 3 ELSE m + 9
        doy == (153 * mp + 2) \div 5 + d - 1
        doe == yoe * 365 + yoe \div 4 - yoe \div 100 + doy
    IN  era * 146097 + doe - 719468

\* the date of a day number
CivilFromDays(z) ==
    LET zz  == z + 719468
        era == zz \div 146097
        doe == zz - era * 146097
        yoe == (doe - doe \div 1460 + doe \div 36524 - doe \div 146096) \div 365
        doy == doe - (365 * yoe + yoe \div 4 - yoe \div 100)
        mp  == (5 * doy + 2) \div 153
        d   == doy - (153 * mp + 2) \div 5 + 1
        m   == IF mp < 10 THEN mp + 3 ELSE mp - 9
        y   == yoe + era * 400 + (IF m <= 2 THEN 1 ELSE 0)
    IN  [year |-> y, month |-> m, day |-> d]

IsLeap(y) == (y % 4 = 0 /\ y % 100 # 0) \/ y % 400 = 0

DaysInMonth(y, m) ==
    IF m = 2 THEN (IF IsLeap(y) THEN 29 ELSE 28)
    ELSE IF m \in {4, 6, 9, 11} THEN 30 ELSE 31

\* a datetime: a day number and a time of day (tick 0 is 00:00:00)
DT(d, k) == [day |-> d, tick |-> k]

DtLe(a, b) == a.day < b.day \/ (a.day = b.day /\ a.tick <= b.tick)

DtLt(a, b) == a.day < b.day \/ (a.day = b.day /\ a.tick < b.tick)

\* text is a sequence of one-character strings
DigitChars == <<"0", "1", "2", "3", "4", "5", "6", "7", "8", "9">>

Digit(n) == DigitChars[n + 1]

IsDigit(c) == \E i \in 1..10 : DigitChars[i] = c

DigitVal(c) == (CHOOSE i \in 1..10 : DigitChars[i] = c) - 1

\* code point order of the characters that occur in a rendered date
CharRank(c) == IF c = "-" THEN 0 ELSE 1 + DigitVal(c)

RECURSIVE NumVal(_)
NumVal(s) == IF s = <<>> THEN 0
             ELSE 10 * NumVal(SubSeq(s, 1, Len(s) - 1)) + DigitVal(s[Len(s)])

AllDigits(s) == \A i \in 1..Len(s) : IsDigit(s[i])

Pad2(n) == <<Digit(n \div 10), Digit(n % 10)>>

Pad4(n) == <<Digit(n \div 1000), Digit((n \div 100) % 10),
             Digit((n \div 10) % 10), Digit(n % 10)>>

\* datetime.strftime("%Y-%m-%d"): the time of day is not rendered
Strftime(t) ==
    LET c == CivilFromDays(t.day)
    IN  Pad4(c.year) \o <<"-">> \o Pad2(c.month) \o <<"-">> \o Pad2(c.day)

\* str < str of Python on rendered dates
RECURSIVE StrLt(_, _)
StrLt(a, b) ==
    IF b = <<>> THEN FALSE
    ELSE IF a = <<>> THEN TRUE
    ELSE IF Head(a) # Head(b) THEN CharRank(Head(a)) < CharRank(Head(b))
    ELSE StrLt(Tail(a), Tail(b))

\* the fields of a text that matches %Y-%m-%d with a month of ml and a day
\* of dl digits
DateFields(s, ml, dl) ==
    [y |-> SubSeq(s, 1, 4), m |-> SubSeq(s, 6, 5 + ml),
     d |-> SubSeq(s, 7 + ml, 6 + ml + dl)]

MatchesDateFormat(s, ml, dl) ==
    /\ Len(s) = 6 + ml + dl
    /\ s[5] = "-"
    /\ s[6 + ml] = "-"
    /\ LET f == DateFields(s, ml, dl)
       IN  /\ AllDigits(f.y) /\ AllDigits(f.m) /\ AllDigits(f.d)
           /\ NumVal(f.m) \in 1..12
           /\ NumVal(f.d) \in 1..31
           /\ NumVal(f.y) \in 1..9999
           /\ NumVal(f.d) <= DaysInMonth(NumVal(f.y), NumVal(f.m))

\* datetime.strptime(s, "%Y-%m-%d") raises ValueError
StrptimeFails(s) ==
    ~ \E ml \in 1..2, dl \in 1..2 : MatchesDateFormat(s, ml, dl)

\* datetime.strptime(s, "%Y-%m-%d"): midnight of the day
Strptime(s) ==
    LET shape == CHOOSE p \in (1..2) \X (1..2) : MatchesDateFormat(s, p[1], p[2])
        f     == DateFields(s, shape[1], shape[2])
    IN  DT(DaysFromCivil(NumVal(f.y), NumVal(f.m), NumVal(f.d)), 0)

\* date_trunc(unit, usage_time) of PostgreSQL: weeks start on Monday
\* (1970-01-01 was a Thursday), months on the 1st
DateTrunc(unit, t) ==
    IF unit = "week" THEN DT(t.day - ((t.day + 3) % 7), 0)
    ELSE IF unit = "month" THEN DT(t.day - (CivilFromDays(t.day).day - 1), 0)
    ELSE DT(t.day, 0)

----------------------------------------------------------------------------
(* The token_usage table *)

\* the calendar days that rows and requests range over: a Wednesday that
\* ends a month and the Thursday that starts the next, so the two days lie in
\* one week (Monday 2024-07-29) and in two months
FirstDay == DaysFromCivil(2024, 7, 31)

LastDay == DaysFromCivil(2024, 8, 1)

Days == FirstDay..LastDay

\* times of day of a row: midnight and one later time
Ticks == {0, 1}

UserIds == {"testuser", "otheruser"}

\* activity labels, listed in the ascending order of the store's collation
Activities == <<"api", "chat">>

TokenAmounts == {100}

\* a row of token_usage (TokenUsage without its id)
Events == [user_id : UserIds,
           usage_time : {DT(d, k) : d \in Days, k \in Ticks},
           tokens_used : TokenAmounts,
           activity : SeqToSet(Activities)]

ActivityRank(a) == CHOOSE i \in 1..Len(Activities) : Activities[i] = a

----------------------------------------------------------------------------
(* get_token_usage_aggregated *)

\* faulty variant of TruncUnit: every timeframe takes the fallback
TruncUnitFallbackOnly(timeframe) == "day"

\* the date_trunc unit of a timeframe
TruncUnit(timeframe) ==
    IF timeframe = "daily" THEN "day"
    ELSE IF timeframe = "weekly" THEN "week"
    ELSE IF timeframe = "monthly" THEN "month"
    ELSE "day"

\* faulty variant of WhereClause: the user_id condition is missing
WhereClauseAnyUser(S, user_id, start_date, end_date) ==
    {e \in BagToSet(S) : /\ DtLe(start_date, e.usage_time)
                         /\ DtLe(e.usage_time, end_date)}

\* WHERE user_id = :user_id AND usage_time >= :start_date
\*   AND usage_time <= :end_date, on the table S
WhereClause(S, user_id, start_date, end_date) ==
    {e \in BagToSet(S) : /\ e.user_id = user_id
                         /\ DtLe(start_date, e.usage_time)
                         /\ DtLe(e.usage_time, end_date)}

\* SUM(tokens_used) over the rows E of the table S
RECURSIVE SumTokens(_, _)
SumTokens(S, E) ==
    IF E = {} THEN 0
    ELSE LET e == CHOOSE x \in E : TRUE
         IN  e.tokens_used * CopiesIn(e, S) + SumTokens(S, E \ {e})

\* faulty variant of OrderByPeriod: ORDER BY period DESC
RECURSIVE OrderByPeriodDesc(_)
OrderByPeriodDesc(P) ==
    IF P = {} THEN <<>>
    ELSE LET m == CHOOSE x \in P : \A y \in P : DtLe(y, x)
         IN  <<m>> \o OrderByPeriodDesc(P \ {m})

\* ORDER BY period ASC
RECURSIVE OrderByPeriod(_)
OrderByPeriod(P) ==
    IF P = {} THEN <<>>
    ELSE LET m == CHOOSE x \in P : \A y \in P : DtLe(x, y)
         IN  <<m>> \o OrderByPeriod(P \ {m})

\* faulty variant of OrderKeyLe: ORDER BY period ASC alone
OrderKeyLePeriodOnly(x, y) == DtLe(x[1], y[1])

\* group x may come before group y under ORDER BY period ASC, activity ASC
OrderKeyLe(x, y) ==
    \/ DtLt(x[1], y[1])
    \/ (x[1] = y[1] /\ ActivityRank(x[2]) <= ActivityRank(y[2]))

\* ORDER BY period ASC, activity ASC over (period, activity) groups
RECURSIVE OrderByPeriodActivity(_)
OrderByPeriodActivity(G) ==
    IF G = {} THEN <<>>
    ELSE LET m == CHOOSE x \in G : \A y \in G : OrderKeyLe(x, y)
         IN  <<m>> \o OrderByPeriodActivity(G \ {m})

\* faulty variant of UsageQuery: one row for every day of the range, 0 where no row
\* of the table matches
UsageQueryZeroFilled(S, trunc_unit, user_id, start_date, end_date) ==
    LET W == WhereClause(S, user_id, start_date, end_date)
        periods == OrderByPeriod({DateTrunc(trunc_unit, DT(d, 0)) :
                                      d \in start_date.day..end_date.day})
    IN  [i \in 1..Len(periods) |->
            [period |-> periods[i],
             total_tokens |->
                 SumTokens(S, {e \in W :
                     DateTrunc(trunc_unit, e.usage_time) = periods[i]})]]

\* the rows of usage_query
UsageQuery(S, trunc_unit, user_id, start_date, end_date) ==
    LET W == WhereClause(S, user_id, start_date, end_date)
        periods == OrderByPeriod({DateTrunc(trunc_unit, e.usage_time) : e \in W})
    IN  [i \in 1..Len(periods) |->
            [period |-> periods[i],
             total_tokens |->
                 SumTokens(S, {e \in W :
                     DateTrunc(trunc_unit, e.usage_time) = periods[i]})]]

\* the rows of breakdown_query
BreakdownQuery(S, trunc_unit, user_id, start_date, end_date) ==
    LET W == WhereClause(S, user_id, start_date, end_date)
        groups == OrderByPeriodActivity(
                      {<<DateTrunc(trunc_unit, e.usage_time), e.activity>> : e \in W})
    IN  [i \in 1..Len(groups) |->
            [period |-> groups[i][1],
             activity |-> groups[i][2],
             tokens |->
                 SumTokens(S, {e \in W :
                     /\ DateTrunc(trunc_unit, e.usage_time) = groups[i][1]
                     /\ e.activity = groups[i][2]})]]

\* faulty variant of SessionCloses: session.close() stands at the end of the
\* try block, not in finally
SessionClosesAtEndOfTry(raised) == IF raised THEN 0 ELSE 1

\* the session.close() calls made when the try block is left, by return or
\* by an exception: the one of finally
SessionCloses(raised) == 1

\* the session after n more calls of session.close()
SessionAfter(s, n) == IF n > 0 THEN "closed" ELSE s

\* the results fetchall() may return for breakdown_query: the database may
\* return the groups in any order that its ORDER BY clause allows
BreakdownResults(S, trunc_unit, user_id, start_date, end_date) ==
    LET rows == BreakdownQuery(S, trunc_unit, user_id, start_date, end_date)
    IN  {r \in {[i \in DOMAIN rows |-> rows[f[i]]] :
                    f \in Permutations(DOMAIN rows)} :
            \A i \in DOMAIN r, j \in DOMAIN r :
                i < j => OrderKeyLe(<<r[i].period, r[i].activity>>,
                                    <<r[j].period, r[j].activity>>)}

\* usage_data: one dict per row, the period rendered
UsageData(rows) ==
    [i \in 1..Len(rows) |->
        [period |-> Strftime(rows[i].period),
         total_tokens |-> rows[i].total_tokens]]

\* a Python dict: its items in insertion order
DictKeys(d) == {d[i].key : i \in 1..Len(d)}

DictGet(d, k) == d[CHOOSE i \in 1..Len(d) : d[i].key = k].value

DictSet(d, k, v) ==
    IF k \in DictKeys(d)
    THEN [i \in 1..Len(d) |->
             IF d[i].key = k THEN [key |-> k, value |-> v] ELSE d[i]]
    ELSE Append(d, [key |-> k, value |-> v])

\* faulty variant of BuildBreakdowns: breakdowns[period] = {} on every row
RECURSIVE BuildBreakdownsReset(_, _)
BuildBreakdownsReset(rows, acc) ==
    IF rows = <<>> THEN acc
    ELSE LET row    == Head(rows)
             period == Strftime(row.period)
         IN  BuildBreakdownsReset(Tail(rows),
                 DictSet(acc, period, DictSet(<<>>, row.activity, row.tokens)))

\* the loop that fills breakdowns from the rows of breakdown_query
RECURSIVE BuildBreakdowns(_, _)
BuildBreakdowns(rows, acc) ==
    IF rows = <<>> THEN acc
    ELSE LET row    == Head(rows)
             period == Strftime(row.period)
             acc1   == IF period \notin DictKeys(acc)
                       THEN DictSet(acc, period, <<>>) ELSE acc
         IN  BuildBreakdowns(Tail(rows),
                 DictSet(acc1, period,
                         DictSet(DictGet(acc1, period), row.activity, row.tokens)))

----------------------------------------------------------------------------
(* Requests *)

PathTokenUsage == <<"/", "a", "p", "i", "/", "t", "o", "k", "e", "n", "-",
                    "u", "s", "a", "g", "e">>

PathDocs == <<"/", "d", "o", "c", "s">>

PathDashboard == <<"/", "d", "a", "s", "h", "b", "o", "a", "r", "d">>

Paths == {PathTokenUsage, PathDocs, PathDashboard}

\* str.startswith
StartsWith(s, prefix) ==
    Len(s) >= Len(prefix) /\ SubSeq(s, 1, Len(prefix)) = prefix

\* the paths AuthMiddleware lets through without a credential
IsDocsPath(path) ==
    \/ StartsWith(path, <<"/", "d", "o", "c", "s">>)
    \/ StartsWith(path, <<"/", "o", "p", "e", "n", "a", "p", "i">>)
    \/ StartsWith(path, <<"/", "r", "e", "d", "o", "c">>)

\* the roles claim of a payload: absent, a JSON list, or JSON null
RolesClaims ==
    {[kind |-> "absent", items |-> <<>>],
     [kind |-> "null", items |-> <<>>],
     [kind |-> "list", items |-> <<"guest">>],
     [kind |-> "list", items |-> <<"user">>],
     [kind |-> "list", items |-> <<"guest", "admin">>]}

SomeClaims == [sub |-> "testuser", username |-> "tester",
               roles |-> [kind |-> "list", items |-> <<"user">>]]

\* the claims of a payload; None is a claim the payload does not carry.
\* Every combination for one subject, and a second subject with role 'user'
Claims ==
    [sub : {None, "testuser"}, username : {"", "tester"}, roles : RolesClaims]
    \cup {[SomeClaims EXCEPT !.sub = "otheruser"]}

\* the default of os.environ.get("JWT_SECRET_KEY", ...)
DefaultSecret == "supersecretkey"

\* a secret a deployment sets JWT_SECRET_KEY to
ConfiguredSecret == "configured-secret"

\* the values of JWT_SECRET_KEY in the environment; None is unset
Environs == {None, ConfiguredSecret}

\* JWT_SECRET_KEY = os.environ.get("JWT_SECRET_KEY", "supersecretkey")
JWT_SECRET_KEY == IF environ = None THEN DefaultSecret ELSE environ

\* a bearer token: whether it is a JWT at all, the key it is signed with,
\* whether its exp claim has passed, and its payload
Tokens ==
    {[wellformed |-> TRUE, key |-> DefaultSecret, expired |-> FALSE, claims |-> c] :
        c \in Claims}
    \cup {[wellformed |-> FALSE, key |-> None, expired |-> FALSE,
           claims |-> SomeClaims],
          [wellformed |-> TRUE, key |-> "forged-key", expired |-> FALSE,
           claims |-> SomeClaims],
          [wellformed |-> TRUE, key |-> DefaultSecret, expired |-> TRUE,
           claims |-> SomeClaims],
          [wellformed |-> TRUE, key |-> ConfiguredSecret, expired |-> FALSE,
           claims |-> SomeClaims]}

NoToken == [wellformed |-> FALSE, key |-> None, expired |-> FALSE,
            claims |-> SomeClaims]

\* the Authorization header: absent, of another scheme, or "Bearer <token>"
Authorizations ==
    {[scheme |-> "<absent>", token |-> NoToken],
     [scheme |-> "Basic", token |-> NoToken]}
    \cup {[scheme |-> "Bearer", token |-> t] : t \in Tokens}

\* jwt.decode(token, JWT_SECRET_KEY, ...) raises JWTError
JwtDecodeFails(token) ==
    ~ token.wellformed \/ token.key # JWT_SECRET_KEY \/ token.expired

\* models.User
User(id, username, roles) == [id |-> id, username |-> username, roles |-> roles]

NoUser == User(None, None, <<>>)

NoQuery == [start_date |-> <<>>, end_date |-> <<>>, timeframe |-> None,
            user_id |-> None]

NoRequest == [path |-> <<>>, authorization |-> [scheme |-> "<absent>", token |-> NoToken],
              query |-> NoQuery]

NoCall == [user_id |-> None, start_date |-> DT(0, 0), end_date |-> DT(0, 0),
           timeframe |-> None]

NoResponse == [status |-> 0, body |-> [detail |-> None]]

ErrorResponse(status, detail) == [status |-> status, body |-> [detail |-> detail]]

----------------------------------------------------------------------------
(* AuthMiddleware.dispatch *)

\* faulty variant of HasRequiredRole: only 'user' is accepted
HasRequiredRoleUserOnly(items) == "user" \in SeqToSet(items)

\* any(role in roles for role in ["user", "admin"]) on a list
HasRequiredRole(items) ==
    \E role \in {"user", "admin"} : role \in SeqToSet(items)

CallNext(user) == [call_next |-> TRUE, user |-> user, response |-> NoResponse]

Respond(status, detail) ==
    [call_next |-> FALSE, user |-> NoUser, response |-> ErrorResponse(status, detail)]

\* faulty variant of AuthMiddlewareDispatch: the role check does not return
AuthMiddlewareDispatchNoRbac(path, authorization) ==
    IF IsDocsPath(path) THEN CallNext(NoUser)
    ELSE IF authorization.scheme # "Bearer"
    THEN Respond(401, "Not authenticated")
    ELSE IF JwtDecodeFails(authorization.token)
    THEN Respond(401, "Invalid or expired authentication token.")
    ELSE LET payload == authorization.token.claims
         IN  IF Falsy(payload.sub) \/ Falsy(payload.username)
             THEN Respond(401, "Invalid authentication token.")
             ELSE IF payload.roles.kind = "null"
             THEN Respond(500, "Authentication system error.")
             ELSE CallNext(User(payload.sub, payload.username, payload.roles.items))

\* faulty variant of AuthMiddlewareDispatch: the role check comes before the check
\* of the required claims
AuthMiddlewareDispatchRoleFirst(path, authorization) ==
    IF IsDocsPath(path) THEN CallNext(NoUser)
    ELSE IF authorization.scheme # "Bearer"
    THEN Respond(401, "Not authenticated")
    ELSE IF JwtDecodeFails(authorization.token)
    THEN Respond(401, "Invalid or expired authentication token.")
    ELSE LET payload == authorization.token.claims
         IN  IF payload.roles.kind = "null"
             THEN Respond(500, "Authentication system error.")
             ELSE IF ~ HasRequiredRole(payload.roles.items)
             THEN Respond(403, "Insufficient permissions.")
             ELSE IF Falsy(payload.sub) \/ Falsy(payload.username)
             THEN Respond(401, "Invalid authentication token.")
             ELSE CallNext(User(payload.sub, payload.username, payload.roles.items))

\* what dispatch does with a request: hand it on (with the user it attached
\* to request.state, if any) or answer it
AuthMiddlewareDispatch(path, authorization) ==
    IF IsDocsPath(path) THEN CallNext(NoUser)
    ELSE IF authorization.scheme # "Bearer"
    THEN Respond(401, "Not authenticated")
    ELSE IF JwtDecodeFails(authorization.token)
    THEN Respond(401, "Invalid or expired authentication token.")
    ELSE LET payload  == authorization.token.claims
             user_id  == payload.sub
             username == payload.username
             roles    == payload.roles
         IN  IF Falsy(user_id) \/ Falsy(username)
             THEN Respond(401, "Invalid authentication token.")
             ELSE IF roles.kind = "null"
             THEN Respond(500, "Authentication system error.")
             ELSE IF ~ HasRequiredRole(roles.items)
             THEN Respond(403, "Insufficient permissions.")
             ELSE CallNext(User(user_id, username, roles.items))

----------------------------------------------------------------------------
(* AuditLoggerMiddleware.dispatch *)

\* user_id = None, username = None
NoAuditUser == [user_id |-> None, username |-> None]

\* the user_id and username dispatch takes from request.state.user, where
\* it finds one, before it calls call_next
AuditIdentity(user) ==
    IF user = NoUser THEN NoAuditUser
    ELSE [user_id |-> user.id, username |-> user.username]

\* faulty variant of ShouldAudit: the /dashboard prefix is missing
ShouldAuditApiOnly(path) == StartsWith(path, <<"/", "a", "p", "i">>)

\* request.url.path.startswith("/api") or ...startswith("/dashboard")
ShouldAudit(path) ==
    \/ StartsWith(path, <<"/", "a", "p", "i">>)
    \/ StartsWith(path, PathDashboard)

\* log_data (without timestamp, method, process_time_ms and client_host)
LogData(identity, path, resp) ==
    [user_id |-> IF Falsy(identity.user_id) THEN "anonymous"
                 ELSE identity.user_id,
     username |-> IF Falsy(identity.username) THEN "anonymous"
                  ELSE identity.username,
     path |-> path,
     status_code |-> resp.status]

\* the AUDIT_LOG lines dispatch writes once call_next has returned resp
AuditExit(identity, path, resp) ==
    IF ShouldAudit(path) THEN <<LogData(identity, path, resp)>> ELSE <<>>

----------------------------------------------------------------------------
(* routes.token_usage *)

NotADate == <<"n", "o", "t", "-", "a", "-", "d", "a", "t", "e">>

\* the start_date and end_date texts a caller sends
DateTexts == {Strftime(DT(d, 0)) : d \in Days} \cup {NotADate}

\* the timeframe values a caller sends: the three of the enumeration, one
\* outside it, and 'daily' followed by a newline (timeframe=daily%0A)
Timeframes == {"daily", "weekly", "monthly", "hourly", "daily\n"}

\* regex="^(daily|weekly|monthly)$", applied with re.match: $ matches at the
\* end of the string and also before a newline that ends the string
TimeframeMatches(timeframe) ==
    \E a \in {"daily", "weekly", "monthly"} :
        timeframe = a \/ timeframe = a \o "\n"

\* faulty variant of ValidateDates: the ValueError of strptime is not caught
\* on its own and reaches the handler's except Exception
ValidateDatesUncaught(start_date, end_date) ==
    IF StrptimeFails(start_date) \/ StrptimeFails(end_date)
    THEN ErrorResponse(500, "Failed to fetch token usage data.")
    ELSE IF DtLt(Strptime(end_date), Strptime(start_date))
    THEN ErrorResponse(422, "Start date must be before or equal to end date.")
    ELSE NoResponse

\* faulty variant of ValidateDates: start_dt >= end_dt is refused
ValidateDatesStrict(start_date, end_date) ==
    IF StrptimeFails(start_date) \/ StrptimeFails(end_date)
    THEN ErrorResponse(422, "Invalid date format. Use YYYY-MM-DD.")
    ELSE IF DtLe(Strptime(end_date), Strptime(start_date))
    THEN ErrorResponse(422, "Start date must be before or equal to end date.")
    ELSE NoResponse

\* the date checks of get_token_usage: the response of the HTTPException
\* they raise, NoResponse when they raise none
ValidateDates(start_date, end_date) ==
    IF StrptimeFails(start_date) \/ StrptimeFails(end_date)
    THEN ErrorResponse(422, "Invalid date format. Use YYYY-MM-DD.")
    ELSE IF DtLt(Strptime(end_date), Strptime(start_date))
    THEN ErrorResponse(422, "Start date must be before or equal to end date.")
    ELSE NoResponse

\* the exceptions the aggregator raises: session.execute fails, or the
\* conversion of a fetched row does
Exceptions == {"OperationalError", "TypeError"}

\* faulty variant of HandlerExcept: the detail carries the exception
HandlerExceptLeaks(exc) == ErrorResponse(500, exc)

\* except Exception in get_token_usage
HandlerExcept(exc) == ErrorResponse(500, "Failed to fetch token usage data.")

\* the logger.error lines of an exception that leaves the aggregator: one of
\* its own except, one of the handler's
ErrorLines(exc) ==
    <<[logger |-> "token_usage_service", exc |-> exc],
      [logger |-> "token_usage", exc |-> exc]>>

\* what stops a request before get_token_usage calls the aggregator: the
\* response of get_current_user, of the Query validation or of the date
\* checks, NoResponse when nothing stops it
HandlerRefusal(user, start_date, end_date, timeframe) ==
    IF user = NoUser
    THEN ErrorResponse(401, "Not authenticated")
    ELSE IF ~ TimeframeMatches(timeframe)
    THEN ErrorResponse(422, "string does not match regex")
    ELSE ValidateDates(start_date, end_date)

\* a user_id query parameter a caller may add; the handler declares none
UserIdParams == {None, "otheruser"}

\* the query strings a caller sends: every combination of dates and
\* timeframe without a user_id parameter, and the whole range with one
Queries ==
    [start_date : DateTexts, end_date : DateTexts, timeframe : Timeframes,
     user_id : {None}]
    \cup [start_date : {Strftime(DT(FirstDay, 0))},
          end_date : {Strftime(DT(LastDay, 0))},
          timeframe : {"daily", "hourly"},
          user_id : UserIdParams \ {None}]

\* faulty variant of ScopeUserId: a user_id query parameter overrides the caller's id
ScopeUserIdFromQuery(user, user_id_param) ==
    IF user_id_param # None THEN user_id_param ELSE user.id

\* user_id = user.id
ScopeUserId(user, user_id_param) == user.id

----------------------------------------------------------------------------
(* The dashboard: values of the Streamlit script *)

\* st.session_state without the key "user"
NoUiUser == [username |-> None, token |-> None]

\* the JSON value of a response body that is not a usage object
NoBody == [null |-> TRUE, data |-> <<>>, breakdowns |-> <<>>]

\* get_token_usage has not been called
NoResult == [raised |-> FALSE, status |-> 0, body |-> NoBody]

\* a new browser session before the first run of the script
InitUi ==
    [pc |-> "idle",
     user |-> NoUiUser,
     timeframe |-> None,
     start_date |-> DT(0, 0),
     end_date |-> DT(0, 0),
     calls |-> 0,
     sent |-> NoQuery,
     result |-> NoResult,
     shown |-> <<>>,
     charts |-> <<>>]

----------------------------------------------------------------------------
(* The dashboard: date_picker, api_client, dashboard, auth *)

\* options=["daily", "weekly", "monthly", "custom"] of st.radio
RadioOptions == {"daily", "weekly", "monthly", "custom"}

\* get_default_date_range on the day today: the start at 00:00, the end
\* late on today
GetDefaultDateRange(timeframe, today) ==
    LET start == IF timeframe = "daily" THEN today - 6
                 ELSE IF timeframe = "weekly" THEN today - 77
                 ELSE IF timeframe = "monthly"
                 THEN DateTrunc("month", DT(today, 0)).day - 365
                 ELSE today - 29
    IN  [start_date |-> DT(start, 0), end_date |-> DT(today, 1)]

\* what render_date_picker returns: the option of the radio with its
\* default range or with the two dates picked for 'custom'; 'daily' with its
\* default range where a widget raised
RenderDatePicker(selection, custom_start, custom_end, raises, today) ==
    IF raises
    THEN [timeframe |-> "daily",
          date_range |-> GetDefaultDateRange("daily", today)]
    ELSE IF selection # "custom"
    THEN [timeframe |-> selection,
          date_range |-> GetDefaultDateRange(selection, today)]
    ELSE [timeframe |-> "custom",
          date_range |-> [start_date |-> DT(custom_start, 0),
                          end_date |-> DT(custom_end, 1)]]

\* params of TokenUsageApiClient.get_token_usage
ClientParams(start_date, end_date, timeframe) ==
    [start_date |-> Strftime(start_date), end_date |-> Strftime(end_date),
     timeframe |-> timeframe, user_id |-> None]

\* the user AuthMiddleware attaches for the caller of the dashboard
DashboardCaller == User("testuser", "tester", <<"user">>)

\* tables the backend may hold when the dashboard asks: none of the
\* caller's rows, or one row on FirstDay
SampleStores ==
    {EmptyBag,
     SetToBag({[user_id |-> DashboardCaller.id, usage_time |-> DT(FirstDay, 0),
                tokens_used |-> 100, activity |-> "api"]})}

\* the responses the backend can give to the request with these params:
\* 401 where AuthMiddleware refuses the token; else what the handler refuses
\* it with, or the answer of the aggregator on a table, or its failure
BackendReplies(params, admitted) ==
    IF ~ admitted
    THEN {ErrorResponse(401, "Invalid or expired authentication token.")}
    ELSE LET refusal == HandlerRefusal(DashboardCaller, params.start_date,
                                       params.end_date, params.timeframe)
         IN  IF refusal # NoResponse THEN {refusal}
             ELSE {[status |-> 200,
                    body |-> [data |-> UsageData(UsageQuery(S,
                                  TruncUnit(params.timeframe),
                                  DashboardCaller.id,
                                  Strptime(params.start_date),
                                  Strptime(params.end_date))),
                              breakdowns |-> BuildBreakdowns(BreakdownQuery(S,
                                  TruncUnit(params.timeframe),
                                  DashboardCaller.id,
                                  Strptime(params.start_date),
                                  Strptime(params.end_date)), <<>>)]] :
                       S \in SampleStores}
                  \cup {HandlerExcept(exc) : exc \in Exceptions}

\* get_token_usage of the client on the reply to client.get: it raises
\* where no response came (httpx.RequestError) and where raise_for_status
\* does, else it returns response.json()
ClientGetTokenUsage(reply) ==
    IF reply = NoResponse
    THEN [raised |-> TRUE, status |-> 0, body |-> NoBody]
    ELSE IF reply.status >= 400
    THEN [raised |-> TRUE, status |-> reply.status, body |-> NoBody]
    ELSE [raised |-> FALSE, status |-> reply.status,
          body |-> [null |-> FALSE, data |-> reply.body.data,
                    breakdowns |-> reply.body.breakdowns]]

LoadingError ==
    "An error occurred while loading your token usage data. Please try again later."

NoDataInfo == "No token usage data available for the selected period"

ChartError == "Unable to render token usage chart. Please try again later."

\* faulty variant of RenderUsage: the check for empty data is missing
RenderUsageNoEmptyCheck(result, timeframe, chart_fails) ==
    IF result.raised
    THEN [shown |-> <<LoadingError>>, charts |-> <<>>]
    ELSE [shown |-> IF chart_fails THEN <<ChartError>> ELSE <<>>,
          charts |-> <<[usage_data |-> result.body.data,
                        timeframe |-> timeframe,
                        breakdowns |-> result.body.breakdowns]>>]

\* render_dashboard after the call of get_token_usage: the messages it
\* shows and the calls of render_token_usage_chart it makes; the chart
\* catches what goes wrong inside it and shows its own message
RenderUsage(result, timeframe, chart_fails) ==
    IF result.raised
    THEN [shown |-> <<LoadingError>>, charts |-> <<>>]
    ELSE IF result.body.null \/ result.body.data = <<>>
    THEN [shown |-> <<NoDataInfo>>, charts |-> <<>>]
    ELSE [shown |-> IF chart_fails THEN <<ChartError>> ELSE <<>>,
          charts |-> <<[usage_data |-> result.body.data,
                        timeframe |-> timeframe,
                        breakdowns |-> result.body.breakdowns]>>]

\* get_user_info on st.session_state
GetUserInfo(session_user) ==
    IF session_user # NoUiUser /\ ~ Falsy(session_user.token)
    THEN session_user ELSE NoUiUser

\* is_authenticated
IsAuthenticated(user) == user # NoUiUser /\ ~ Falsy(user.token)

\* st.session_state["user"] after logout_user: the key is deleted after
\* authenticator.logout, inside the same try
LogoutUser(session_user, raises) ==
    IF raises THEN session_user ELSE NoUiUser

----------------------------------------------------------------------------
(* The state machine *)

\* the process has started with JWT_SECRET_KEY not set, as the tests run it
Init ==
    /\ store = EmptyBag
    /\ pc = "idle"
    /\ request = NoRequest
    /\ state_user = NoUser
    /\ call = NoCall
    /\ session = "none"
    /\ usage_data = <<>>
    /\ breakdowns = <<>>
    /\ response = NoResponse
    /\ rows_at_usage = 0
    /\ rows_at_breakdown = 0
    /\ environ = None
    /\ closes = 0
    /\ ui = InitUi
    /\ log = <<>>
    /\ audit_user = NoAuditUser
    /\ audit_log = <<>>
    /\ other = "none"

\* the ingestion path (another process) inserts a row and commits
Ingest(e) ==
    /\ BagCardinality(store) < MaxEvents
    /\ store' = store (+) SetToBag({e})
    /\ UNCHANGED <<pc, request, state_user, call, session, usage_data,
                   breakdowns, response, rows_at_usage, rows_at_breakdown,
                   environ, closes, ui, log, audit_user, audit_log, other>>

\* a request arrives. The middleware added last is the outermost:
\* AuditLoggerMiddleware.dispatch runs first and reads request.state.user,
\* then its call_next enters AuthMiddleware.dispatch. Where AuthMiddleware
\* answers the request itself, the response returns through
\* AuditLoggerMiddleware, which writes its line.
Dispatch(path, authorization) ==
    /\ pc = "idle"
    /\ LET identity == AuditIdentity(state_user)
           o == AuthMiddlewareDispatch(path, authorization)
       IN  /\ request' = [path |-> path, authorization |-> authorization,
                          query |-> NoQuery]
           /\ audit_user' = identity
           /\ state_user' = o.user
           /\ response' = o.response
           /\ pc' = IF o.call_next THEN "route" ELSE "done"
           /\ audit_log' = IF o.call_next THEN <<>>
                           ELSE AuditExit(identity, path, o.response)
    /\ UNCHANGED <<store, call, session, usage_data, breakdowns,
                   rows_at_usage, rows_at_breakdown, environ, closes, ui, log, other>>

\* the documentation page: no dependency on the user, no data
ServeDocs ==
    /\ pc = "route"
    /\ request.path = PathDocs
    /\ response' = [status |-> 200, body |-> [detail |-> "docs"]]
    /\ audit_log' = AuditExit(audit_user, request.path, response')
    /\ pc' = "done"
    /\ UNCHANGED <<store, request, state_user, call, session, usage_data,
                   breakdowns, rows_at_usage, rows_at_breakdown,
                   environ, closes, ui, log, audit_user, other>>

\* no route matches the path
NotFound ==
    /\ pc = "route"
    /\ request.path \notin {PathDocs, PathTokenUsage}
    /\ response' = ErrorResponse(404, "Not Found")
    /\ audit_log' = AuditExit(audit_user, request.path, response')
    /\ pc' = "done"
    /\ UNCHANGED <<store, request, state_user, call, session, usage_data,
                   breakdowns, rows_at_usage, rows_at_breakdown,
                   environ, closes, ui, log, audit_user, other>>

\* get_token_usage up to the call of get_token_usage_aggregated, which opens
\* its session; get_current_user and the Query validation run first
GetTokenUsage(start_date, end_date, timeframe, user_id_param) ==
    /\ pc = "route"
    /\ request.path = PathTokenUsage
    /\ request' = [request EXCEPT !.query =
                      [start_date |-> start_date, end_date |-> end_date,
                       timeframe |-> timeframe, user_id |-> user_id_param]]
    /\ LET refusal == HandlerRefusal(state_user, start_date, end_date,
                                     timeframe)
       IN  IF refusal # NoResponse
           THEN /\ response' = refusal
                /\ audit_log' = AuditExit(audit_user, request.path, refusal)
                /\ pc' = "done"
                /\ UNCHANGED <<call, session>>
           ELSE /\ call' = [user_id |-> ScopeUserId(state_user, user_id_param),
                            start_date |-> Strptime(start_date),
                            end_date |-> Strptime(end_date),
                            timeframe |-> timeframe]
                /\ session' = "open"
                /\ pc' = "usage_query"
                /\ UNCHANGED <<response, audit_log>>
    /\ UNCHANGED <<store, state_user, usage_data, breakdowns, rows_at_usage,
                   rows_at_breakdown, environ, closes, ui, log, audit_user, other>>

\* session.execute(usage_query).fetchall() and the usage_data comprehension.
\* The engine is created with the default isolation level: each statement
\* reads the rows committed when it starts.
RunUsageQuery ==
    /\ pc = "usage_query"
    /\ usage_data' = UsageData(UsageQuery(store, TruncUnit(call.timeframe),
                                   call.user_id, call.start_date, call.end_date))
    /\ rows_at_usage' = BagCardinality(store)
    /\ pc' = "breakdown_query"
    /\ UNCHANGED <<store, request, state_user, call, session, breakdowns,
                   response, rows_at_breakdown, environ, closes, ui, log, audit_user,
                   audit_log, other>>

\* session.execute(breakdown_query).fetchall(), the loop over its rows, the
\* return through finally, the handler's response and the line
\* AuditLoggerMiddleware writes for it. A second statement: it reads the
\* table as it is now, rows committed since the first included.
RunBreakdownQuery ==
    /\ pc = "breakdown_query"
    /\ \E rows \in BreakdownResults(store, TruncUnit(call.timeframe),
                        call.user_id, call.start_date, call.end_date) :
           LET b == BuildBreakdowns(rows, <<>>)
           IN  /\ breakdowns' = b
               /\ response' = [status |-> 200,
                               body |-> [data |-> usage_data,
                                         breakdowns |-> b]]
    /\ audit_log' = AuditExit(audit_user, request.path, response')
    /\ rows_at_breakdown' = BagCardinality(store)
    /\ closes' = closes + SessionCloses(FALSE)
    /\ session' = SessionAfter(session, SessionCloses(FALSE))
    /\ pc' = "done"
    /\ UNCHANGED <<store, request, state_user, call, usage_data,
                   rows_at_usage, environ, ui, log, audit_user, other>>

\* the first query or the conversion of its rows raises exc: the except of
\* the aggregator logs and re-raises, finally closes the session, the except
\* of the handler logs and answers; the aggregator is not called again
UsageQueryFails(exc) ==
    /\ pc = "usage_query"
    /\ closes' = closes + SessionCloses(TRUE)
    /\ session' = SessionAfter(session, SessionCloses(TRUE))
    /\ log' = log \o ErrorLines(exc)
    /\ response' = HandlerExcept(exc)
    /\ audit_log' = AuditExit(audit_user, request.path, response')
    /\ pc' = "done"
    /\ UNCHANGED <<store, request, state_user, call, usage_data, breakdowns,
                   rows_at_usage, rows_at_breakdown, environ, ui, audit_user,
                   other>>

\* the second query or the loop over its rows raises exc
BreakdownQueryFails(exc) ==
    /\ pc = "breakdown_query"
    /\ closes' = closes + SessionCloses(TRUE)
    /\ session' = SessionAfter(session, SessionCloses(TRUE))
    /\ log' = log \o ErrorLines(exc)
    /\ response' = HandlerExcept(exc)
    /\ audit_log' = AuditExit(audit_user, request.path, response')
    /\ pc' = "done"
    /\ UNCHANGED <<store, request, state_user, call, usage_data, breakdowns,
                   rows_at_usage, rows_at_breakdown, environ, ui, audit_user,
                   other>>

\* the response is sent; everything scoped to the request is dropped
Finish ==
    /\ pc = "done"
    /\ pc' = "idle"
    /\ request' = NoRequest
    /\ state_user' = NoUser
    /\ call' = NoCall
    /\ session' = "none"
    /\ usage_data' = <<>>
    /\ breakdowns' = <<>>
    /\ response' = NoResponse
    /\ rows_at_usage' = 0
    /\ rows_at_breakdown' = 0
    /\ log' = <<>>
    /\ audit_user' = NoAuditUser
    /\ audit_log' = <<>>
    /\ closes' = 0
    /\ UNCHANGED <<store, environ, ui, other>>

\* the steps of one request
RequestStep ==
    \/ \E path \in Paths, authorization \in Authorizations :
           Dispatch(path, authorization)
    \/ ServeDocs
    \/ NotFound
    \/ \E q \in Queries :
           GetTokenUsage(q.start_date, q.end_date, q.timeframe, q.user_id)
    \/ RunUsageQuery
    \/ RunBreakdownQuery
    \/ \E exc \in Exceptions : UsageQueryFails(exc)
    \/ \E exc \in Exceptions : BreakdownQueryFails(exc)
    \/ Finish

Next ==
    \/ \E e \in Events : Ingest(e)
    \/ RequestStep

Spec == Init /\ [][Next]_vars

----------------------------------------------------------------------------
(* The server process: its environment and its event loop *)

\* the process has started, with JWT_SECRET_KEY set or not
InitServer ==
    /\ store = EmptyBag
    /\ pc = "idle"
    /\ request = NoRequest
    /\ state_user = NoUser
    /\ call = NoCall
    /\ session = "none"
    /\ usage_data = <<>>
    /\ breakdowns = <<>>
    /\ response = NoResponse
    /\ rows_at_usage = 0
    /\ rows_at_breakdown = 0
    /\ environ \in Environs
    /\ closes = 0
    /\ ui = InitUi
    /\ log = <<>>
    /\ audit_user = NoAuditUser
    /\ audit_log = <<>>
    /\ other = "none"

\* the thread of the event loop is inside get_token_usage_aggregated: the
\* coroutine get_token_usage calls it without await, and session.execute
\* waits for the database on that thread
LoopBlocked == pc \in {"usage_query", "breakdown_query"}

\* the server accepts a second request; its task waits for the event loop
OtherArrives ==
    /\ other = "none"
    /\ other' = "waiting"
    /\ UNCHANGED <<store, pc, request, state_user, call, session, usage_data,
                   breakdowns, response, rows_at_usage, rows_at_breakdown,
                   environ, closes, ui, log, audit_user, audit_log>>

\* the event loop runs the task of the second request
OtherRuns ==
    /\ other = "waiting"
    /\ ~ LoopBlocked
    /\ other' = "none"
    /\ UNCHANGED <<store, pc, request, state_user, call, session, usage_data,
                   breakdowns, response, rows_at_usage, rows_at_breakdown,
                   environ, closes, ui, log, audit_user, audit_log>>

NextServer ==
    \/ RequestStep
    \/ OtherArrives
    \/ OtherRuns

SpecServer == InitServer /\ [][NextServer]_vars

----------------------------------------------------------------------------
(* The dashboard: runs of the Streamlit script in one browser session *)

backendVars == <<store, pc, request, state_user, call, session, usage_data,
                 breakdowns, response, rows_at_usage, rows_at_breakdown,
                 environ, log, audit_user, audit_log, other, closes>>

\* the users of USERS
Usernames == {"alice", "bob"}

\* show_login: authenticate_user succeeds and stores the user with the
\* token of the cookie; the script reruns
UiLogin(username) ==
    /\ ui.pc = "idle"
    /\ ~ IsAuthenticated(GetUserInfo(ui.user))
    /\ ui' = [ui EXCEPT !.user = [username |-> username,
                                  token |-> "cookie-token"]]
    /\ UNCHANGED backendVars

\* main with st.session_state["logout"] set: logout_user, then a rerun
UiLogout(raises) ==
    /\ ui.pc = "idle"
    /\ ui' = [ui EXCEPT !.user = LogoutUser(ui.user, raises),
                        !.pc = "logged_out"]
    /\ UNCHANGED backendVars

\* show_dashboard for an authenticated user: render_dashboard up to the
\* return of render_date_picker
UiPick(selection, custom_start, custom_end, raises, today) ==
    /\ ui.pc = "idle"
    /\ IsAuthenticated(GetUserInfo(ui.user))
    /\ custom_start <= custom_end
    /\ LET picked == RenderDatePicker(selection, custom_start, custom_end,
                                      raises, today)
       IN  ui' = [ui EXCEPT !.timeframe = picked.timeframe,
                            !.start_date = picked.date_range.start_date,
                            !.end_date = picked.date_range.end_date,
                            !.pc = "picked"]
    /\ UNCHANGED backendVars

\* api_client.get_token_usage: the request goes out, the backend replies
\* or no response comes
UiFetch(admitted) ==
    /\ ui.pc = "picked"
    /\ LET params == ClientParams(ui.start_date, ui.end_date, ui.timeframe)
       IN  \E reply \in BackendReplies(params, admitted) \cup {NoResponse} :
               ui' = [ui EXCEPT !.calls = @ + 1,
                                !.sent = params,
                                !.result = ClientGetTokenUsage(reply),
                                !.pc = "fetched"]
    /\ UNCHANGED backendVars

\* the rest of render_dashboard
UiRender(chart_fails) ==
    /\ ui.pc = "fetched"
    /\ LET o == RenderUsage(ui.result, ui.timeframe, chart_fails)
       IN  ui' = [ui EXCEPT !.shown = o.shown,
                            !.charts = o.charts,
                            !.pc = "done"]
    /\ UNCHANGED backendVars

\* the script reruns: st.session_state stays, the rest starts afresh
UiRerun ==
    /\ ui.pc \in {"done", "logged_out"}
    /\ ui' = [InitUi EXCEPT !.user = ui.user]
    /\ UNCHANGED backendVars

NextDashboard ==
    \/ \E username \in Usernames : UiLogin(username)
    \/ \E raises \in BOOLEAN : UiLogout(raises)
    \/ \E selection \in RadioOptions, custom_start \in Days,
          custom_end \in Days, raises \in BOOLEAN, today \in Days :
           UiPick(selection, custom_start, custom_end, raises, today)
    \/ \E admitted \in BOOLEAN : UiFetch(admitted)
    \/ \E chart_fails \in BOOLEAN : UiRender(chart_fails)
    \/ UiRerun

SpecDashboard == Init /\ [][NextDashboard]_vars

----------------------------------------------------------------------------
(* Properties *)

\* get_token_usage_aggregated has returned to the handler, which answered 200
Returned == pc = "done" /\ session = "closed" /\ response.status = 200

\* the table has not changed since the totals query read it
UnchangedSinceUsage == rows_at_usage = BagCardinality(store)

\* the table has not changed since the breakdown query read it
UnchangedSinceBreakdown == rows_at_breakdown = BagCardinality(store)

\* the table S without the rows of other users than user_id
OwnRows(S, user_id) ==
    [e \in {x \in BagToSet(S) : x.user_id = user_id} |-> CopiesIn(e, S)]

\* row e belongs to the user of call c and lies in its range of datetimes
InCallRange(e, c) ==
    /\ e.user_id = c.user_id
    /\ DtLe(c.start_date, e.usage_time)
    /\ DtLe(e.usage_time, c.end_date)

\* the rendered bucket of row e under the timeframe of a call
BucketKey(e, timeframe) ==
    Strftime(DateTrunc(
        CASE timeframe = "weekly" -> "week"
          [] timeframe = "monthly" -> "month"
          [] OTHER -> "day", e.usage_time))

DataPeriods(data) == {data[i].period : i \in 1..Len(data)}

RECURSIVE SumValues(_)
SumValues(d) == IF d = <<>> THEN 0 ELSE Head(d).value + SumValues(Tail(d))

RECURSIVE TotalOf(_)
TotalOf(data) ==
    IF data = <<>> THEN 0 ELSE Head(data).total_tokens + TotalOf(Tail(data))

\* data and breakdowns have the same bucket keys and every total is the sum
\* of its breakdown
CrossCheck(data, bd) ==
    /\ DataPeriods(data) = DictKeys(bd)
    /\ \A i \in 1..Len(data) :
           data[i].total_tokens = SumValues(DictGet(bd, data[i].period))

\* C1: tenant isolation of the aggregator. What each query returns for user
\* A is what it returns on the table with every row of another user removed:
\* rows of other users, in the same range and bucket or not, change nothing
\* of A's data or breakdowns.
C1_TenantIsolation ==
    /\ (pc = "breakdown_query" /\ UnchangedSinceUsage) =>
           usage_data = UsageData(UsageQuery(OwnRows(store, call.user_id),
                            TruncUnit(call.timeframe), call.user_id,
                            call.start_date, call.end_date))
    /\ (Returned /\ UnchangedSinceBreakdown) =>
           breakdowns = BuildBreakdowns(
                            BreakdownQuery(OwnRows(store, call.user_id),
                                TruncUnit(call.timeframe), call.user_id,
                                call.start_date, call.end_date), <<>>)

\* a result for a user while another user has a row in the same bucket
C1_Witness ==
    /\ Returned /\ UnchangedSinceUsage
    /\ usage_data # <<>>
    /\ \E a \in BagToSet(store), b \in BagToSet(store) :
           /\ InCallRange(a, call)
           /\ b.user_id # call.user_id
           /\ b.usage_time = a.usage_time

\* the sub claim of the credential of the request in flight
CredentialSub == request.authorization.token.claims.sub

\* C2: the user_id get_token_usage_aggregated is called with is the sub
\* claim of the credential AuthMiddleware verified for the request, whatever
\* user_id query parameter the caller sent.
C2_ScopeIsVerifiedSubject ==
    call # NoCall =>
        /\ request.authorization.scheme = "Bearer"
        /\ ~ JwtDecodeFails(request.authorization.token)
        /\ call.user_id = CredentialSub

\* the aggregator called for testuser while the query names otheruser
C2_Witness ==
    /\ call # NoCall
    /\ request.query.user_id = "otheruser"
    /\ CredentialSub = "testuser"

\* the credential of the request in flight is a verified one: a Bearer JWT
\* with a valid signature, not expired, carrying sub and username
CredentialVerified ==
    LET a == request.authorization
    IN  /\ a.scheme = "Bearer"
        /\ a.token.wellformed /\ a.token.key = JWT_SECRET_KEY
        /\ ~ a.token.expired
        /\ a.token.claims.sub \notin {None, ""}
        /\ a.token.claims.username \notin {None, ""}

\* the roles claim of the credential is a list holding 'user' or 'admin'
CredentialPermitted ==
    LET r == request.authorization.token.claims.roles
    IN  /\ r.kind \in {"absent", "list"}
        /\ \E i \in 1..Len(r.items) : r.items[i] \in {"user", "admin"}

\* C3: the aggregator is invoked (its session opened, its queries run) only
\* for a request whose credential AuthMiddleware verified and found to hold a
\* permitted role; a request answered 401 or 403 never invoked it.
C3_AuthBeforeDataAccess ==
    /\ (call # NoCall \/ session # "none") =>
           /\ CredentialVerified
           /\ CredentialPermitted
           /\ state_user # NoUser
    /\ response.status \in {401, 403} =>
           /\ call = NoCall
           /\ session = "none"
           /\ usage_data = <<>>
           /\ breakdowns = <<>>

\* the aggregator has run both queries for an admitted request
C3_Witness == Returned /\ call # NoCall /\ state_user # NoUser

\* the credential of the request in flight is absent, not a Bearer header,
\* malformed, wrongly signed, expired, or lacks a non-empty sub or username
CredentialBad ==
    LET a == request.authorization
    IN  \/ a.scheme # "Bearer"
        \/ ~ a.token.wellformed
        \/ a.token.key # JWT_SECRET_KEY
        \/ a.token.expired
        \/ a.token.claims.sub \in {None, ""}
        \/ a.token.claims.username \in {None, ""}

\* C4: a request to a non-documentation path with a bad credential is
\* answered 401, whatever its roles claim: the check of the required claims
\* comes before the role check.
C4_BadCredentialIs401 ==
    (pc = "done" /\ ~ IsDocsPath(request.path) /\ CredentialBad) =>
        response.status = 401

\* 401 for a signed credential without sub whose roles would be refused
C4_Witness ==
    /\ pc = "done"
    /\ request.path = PathTokenUsage
    /\ request.authorization.scheme = "Bearer"
    /\ ~ JwtDecodeFails(request.authorization.token)
    /\ request.authorization.token.claims.sub = None
    /\ request.authorization.token.claims.roles
           = [kind |-> "list", items |-> <<"guest">>]
    /\ response.status = 401

C6_CrossCheckUnchangedStore ==
    (Returned /\ rows_at_usage = rows_at_breakdown) =>
        CrossCheck(response.body.data, response.body.breakdowns)

\* an answer with a bucket that two activities contribute to
C6_Witness ==
    /\ Returned /\ rows_at_usage = rows_at_breakdown
    /\ \E i \in 1..Len(breakdowns) : Len(breakdowns[i].value) = 2

\* C7 (as claimed): every answer satisfies the cross-check, also when a row
\* is inserted between the two queries.
C7_CrossCheckAlways ==
    Returned => CrossCheck(response.body.data, response.body.breakdowns)

\* the days of the requested range, both ends included
RequestedDays ==
    Strptime(request.query.start_date).day..Strptime(request.query.end_date).day

\* C8 (as claimed): the answer counts every row of the caller whose
\* usage_time falls on a day from start_date to end_date, at any time of day.
C8_InclusiveDays ==
    (Returned /\ UnchangedSinceUsage) =>
        TotalOf(response.body.data)
            = SumTokens(store, {e \in BagToSet(store) :
                                   /\ e.user_id = CredentialSub
                                   /\ e.usage_time.day \in RequestedDays})

\* C9: data holds an entry for a bucket exactly when a row of the scoped
\* user inside the range of the call truncates to that bucket, one entry per
\* such bucket; with no such row the answer is 200 with data [] and
\* breakdowns {}.
C9_Sparse ==
    /\ (pc = "breakdown_query" /\ UnchangedSinceUsage) =>
           /\ DataPeriods(usage_data)
                  = {BucketKey(e, call.timeframe) :
                         e \in {x \in BagToSet(store) : InCallRange(x, call)}}
           /\ Len(usage_data) = Cardinality(DataPeriods(usage_data))
    /\ (Returned /\ UnchangedSinceUsage
            /\ ~ \E e \in BagToSet(store) : InCallRange(e, call)) =>
           /\ response.body.data = <<>>
           /\ response.body.breakdowns = <<>>

\* a range of two days of which only one has a row: one entry
C9_Witness ==
    /\ Returned /\ UnchangedSinceUsage
    /\ call.timeframe = "daily"
    /\ call.start_date.day < call.end_date.day
    /\ Len(response.body.data) = 1

\* C10: the entries of data are in strictly ascending order of their period
\* text, so no period occurs twice.
C10_AscendingPeriods ==
    \A i \in 1..Len(usage_data), j \in 1..Len(usage_data) :
        i < j => StrLt(usage_data[i].period, usage_data[j].period)

\* data with two buckets
C10_Witness == Returned /\ Len(response.body.data) = 2

\* the date_trunc unit a timeframe stands for
Granule(timeframe) ==
    CASE timeframe = "weekly" -> "week"
      [] timeframe = "monthly" -> "month"
      [] OTHER -> "day"

\* the data a daily request of the caller of the call in flight gets for
\* the same range on the table as it is
DailyData ==
    UsageData(UsageQuery(store, "day", call.user_id,
                         call.start_date, call.end_date))

\* the bucket, under the timeframe of the call in flight, of the day that
\* an entry of the daily data names
BucketOfDay(period) ==
    Strftime(DateTrunc(Granule(call.timeframe), Strptime(period)))

\* the entries of the daily data whose day lies in the bucket named period
DailyInBucket(period) ==
    LET InBucket(r) == BucketOfDay(r.period) = period
    IN  SelectSeq(DailyData, InBucket)

\* C11: on an unchanged table, for the same user and range, the total of
\* every bucket of a weekly or monthly answer is the sum of the daily
\* buckets whose day lies in that week or month, every daily bucket lies in
\* a bucket of the answer, and the grand total is the grand total of the
\* daily answer, so the same for daily, weekly and monthly.
C11_GranularityConsistent ==
    (pc = "breakdown_query" /\ UnchangedSinceUsage) =>
        /\ \A i \in 1..Len(usage_data) :
               usage_data[i].total_tokens
                   = TotalOf(DailyInBucket(usage_data[i].period))
        /\ \A j \in 1..Len(DailyData) :
               BucketOfDay(DailyData[j].period) \in DataPeriods(usage_data)
        /\ TotalOf(usage_data) = TotalOf(DailyData)

\* a weekly answer whose single bucket sums two daily buckets
C11_Witness ==
    /\ pc = "breakdown_query" /\ UnchangedSinceUsage
    /\ call.timeframe = "weekly"
    /\ Len(usage_data) = 1
    /\ Len(DailyData) = 2

\* what the aggregator computes for the call in flight on the table as it is
AnswerOnStore ==
    [data |-> UsageData(UsageQuery(store, TruncUnit(call.timeframe),
                  call.user_id, call.start_date, call.end_date)),
     breakdowns |-> BuildBreakdowns(
                  BreakdownQuery(store, TruncUnit(call.timeframe),
                      call.user_id, call.start_date, call.end_date), <<>>)]

\* C12: the answer to a request is determined by the table, the caller and
\* the query: whatever order the database was free to return rows in, on an
\* unchanged table the body is the one value computed from the table, with
\* its periods and activity keys in one order, so two identical requests get
\* identical data and breakdowns; and no step of a request changes the table.
C12_Idempotent ==
    /\ []((Returned /\ UnchangedSinceUsage) => response.body = AnswerOnStore)
    /\ [][pc' # pc => store' = store]_vars

\* a weekly answer on an unchanged table with a bucket of two activities,
\* 'api' before 'chat'
C12_Witness ==
    /\ Returned /\ UnchangedSinceUsage
    /\ call.timeframe = "weekly"
    /\ \E i \in 1..Len(response.body.breakdowns) :
           /\ Len(response.body.breakdowns[i].value) = 2
           /\ response.body.breakdowns[i].value[1].key = "api"

\* the handler of /api/token-usage has taken the query of an admitted caller
HandlerEntered ==
    /\ request.path = PathTokenUsage
    /\ request.query # NoQuery
    /\ state_user # NoUser

\* the day that strptime parses each text a caller sends to, -1 for a text
\* it refuses
ParsedDay ==
    [t \in DateTexts |-> IF StrptimeFails(t) THEN -1 ELSE Strptime(t).day]

\* C13: a request of an admitted caller whose start_date or end_date does
\* not parse as YYYY-MM-DD is answered 422 and the aggregator is not
\* invoked: no call, no session, no query.
C13_UnparseableDateIs422 ==
    (HandlerEntered /\ (\/ ParsedDay[request.query.start_date] = -1
                        \/ ParsedDay[request.query.end_date] = -1)) =>
        /\ pc = "done"
        /\ response.status = 422
        /\ call = NoCall
        /\ session = "none"
        /\ usage_data = <<>> /\ breakdowns = <<>>

\* 422 for a valid start_date with an end_date that is no date, sent with
\* a valid timeframe
C13_Witness ==
    /\ HandlerEntered
    /\ request.query.timeframe = "daily"
    /\ ParsedDay[request.query.start_date] # -1
    /\ request.query.end_date = NotADate
    /\ response = ErrorResponse(422, "Invalid date format. Use YYYY-MM-DD.")

\* C14: a request of an admitted caller with a valid timeframe and two
\* dates that parse is answered 422 without a call of the aggregator exactly
\* when start_date is after end_date; start_date equal to end_date is
\* accepted and aggregated.
C14_RangeOrder ==
    (HandlerEntered /\ TimeframeMatches(request.query.timeframe)
        /\ ParsedDay[request.query.start_date] # -1
        /\ ParsedDay[request.query.end_date] # -1) =>
        IF ParsedDay[request.query.start_date]
               > ParsedDay[request.query.end_date]
        THEN /\ pc = "done"
             /\ response = ErrorResponse(422,
                    "Start date must be before or equal to end date.")
             /\ call = NoCall
             /\ session = "none"
        ELSE /\ call # NoCall
             /\ call.start_date = DT(ParsedDay[request.query.start_date], 0)
             /\ call.end_date = DT(ParsedDay[request.query.end_date], 0)
             /\ response.status # 422

\* a range of one day has been aggregated
C14_Witness ==
    /\ Returned
    /\ request.query.start_date = request.query.end_date

\* C15 (as claimed): the aggregator is never called through the endpoint
\* with a timeframe outside {daily, weekly, monthly}, so its fallback to
\* 'day' is unreachable; such a request of an admitted caller is answered
\* 422.
C15_TimeframeEnum ==
    /\ call # NoCall => call.timeframe \in {"daily", "weekly", "monthly"}
    /\ (HandlerEntered
            /\ request.query.timeframe \notin {"daily", "weekly", "monthly"}) =>
           /\ pc = "done"
           /\ response.status = 422
           /\ call = NoCall

\* C16: when the aggregator raises, at its first query or its second, on
\* execute or on the conversion of a row, the request is answered 500 with
\* the detail 'Failed to fetch token usage data.' and nothing else in the
\* body, whatever the exception and whatever data was already computed; the
\* error is logged by the aggregator and by the handler, the session is
\* closed, and the request takes no further step but the sending of the
\* response: no query runs again.
C16_AggregatorFailureIs500 ==
    /\ []((call # NoCall /\ pc = "done" /\ response.status # 200) =>
            /\ response = ErrorResponse(500, "Failed to fetch token usage data.")
            /\ DOMAIN response.body = {"detail"}
            /\ session = "closed"
            /\ Len(log) = 2
            /\ log[1].logger = "token_usage_service"
            /\ log[2].logger = "token_usage"
            /\ log[1].exc = log[2].exc)
    /\ [](log # <<>> => (call # NoCall /\ pc = "done" /\ response.status = 500))
    /\ [][(log # <<>> /\ pc' # pc) => pc' = "idle"]_vars

\* the conversion of a row of the second query failed after the first query
\* had produced data: 500, none of the data in the body
C16_Witness ==
    /\ pc = "done"
    /\ response.status = 500
    /\ Len(log) = 2 /\ log[1].exc = "TypeError"
    /\ usage_data # <<>>

\* C17 (as claimed): while a query of one request is in flight, a second
\* request the server has accepted can take a step.
C17_NoBlocking ==
    (pc \in {"usage_query", "breakdown_query"} /\ other = "waiting") =>
        ENABLED OtherRuns

\* C18 (as claimed): with JWT_SECRET_KEY not set in the environment, no
\* credential signed with the literal 'supersecretkey' is accepted.
C18_NoLiteralSecret ==
    (environ = None /\ pc # "idle"
        /\ ~ IsDocsPath(request.path)
        /\ request.authorization.scheme = "Bearer"
        /\ request.authorization.token.key = "supersecretkey") =>
        /\ state_user = NoUser
        /\ call = NoCall

\* C19 (as claimed): the audit record of a request that AuthMiddleware
\* verified and admitted carries the id and username it attached to
\* request.state.user; 'anonymous' stands only in the record of a request
\* it attached no identity to.
C19_AuditCarriesIdentity ==
    \A i \in 1..Len(audit_log) :
        /\ state_user # NoUser =>
               /\ audit_log[i].user_id = state_user.id
               /\ audit_log[i].username = state_user.username
        /\ audit_log[i].user_id = "anonymous" => state_user = NoUser

\* C20: once a request has its response, AuditLoggerMiddleware has written
\* exactly one record for it if its path starts with /api or /dashboard,
\* carrying the path and the status code of that response, whether 200,
\* 401, 403, 404, 422 or 500, and none if its path starts otherwise; before
\* the response exists no record is written.
C20_OneAuditRecord ==
    IF pc = "done"
    THEN IF \/ StartsWith(request.path, <<"/", "a", "p", "i">>)
            \/ StartsWith(request.path,
                   <<"/", "d", "a", "s", "h", "b", "o", "a", "r", "d">>)
         THEN /\ Len(audit_log) = 1
              /\ audit_log[1].status_code = response.status
              /\ audit_log[1].path = request.path
         ELSE audit_log = <<>>
    ELSE audit_log = <<>>

\* one record with status 403 for a refused request to /dashboard
C20_Witness ==
    /\ pc = "done"
    /\ request.path = PathDashboard
    /\ response.status = 403
    /\ Len(audit_log) = 1
    /\ audit_log[1].status_code = 403

\* C21: get_token_usage is called at most once in a run of render_dashboard,
\* and the run ends in one of three ways: the call raised, the loading
\* error is shown and the chart is not called; the call returned no data,
\* the 'No token usage data available' info is shown and the chart is not
\* called; otherwise render_token_usage_chart is called once, with the data
\* and the breakdowns returned, and neither of the two messages is shown.
C21_ThreeOutcomes ==
    /\ ui.calls <= 1
    /\ ui.pc = "done" =>
           /\ ui.calls = 1
           /\ IF ui.result.raised
              THEN ui.shown = <<LoadingError>> /\ ui.charts = <<>>
              ELSE IF ui.result.body.null \/ ui.result.body.data = <<>>
              THEN ui.shown = <<NoDataInfo>> /\ ui.charts = <<>>
              ELSE /\ Len(ui.charts) = 1
                   /\ ui.charts[1].usage_data = ui.result.body.data
                   /\ ui.charts[1].breakdowns = ui.result.body.breakdowns
                   /\ LoadingError \notin SeqToSet(ui.shown)
                   /\ NoDataInfo \notin SeqToSet(ui.shown)

\* a run that called the chart with a bucket the backend returned
C21_Witness ==
    /\ ui.pc = "done"
    /\ Len(ui.charts) = 1
    /\ ui.charts[1].usage_data # <<>>
    /\ ui.calls = 1

\* C22 (as claimed): every request the dashboard sends carries a timeframe
\* the backend accepts, 'daily', 'weekly' or 'monthly', and none is answered
\* 422.
C22_DashboardTimeframes ==
    ui.sent # NoQuery =>
        /\ ui.sent.timeframe \in {"daily", "weekly", "monthly"}
        /\ ui.result.status # 422

\* C25 (as claimed): once logout_user has returned, whether
\* authenticator.logout raised or not, get_user_info returns None and
\* is_authenticated of it is False.
C25_LoggedOut ==
    ui.pc = "logged_out" =>
        /\ GetUserInfo(ui.user) = NoUiUser
        /\ ~ IsAuthenticated(GetUserInfo(ui.user))

\* C23 (as claimed): every period key of an answer, in data and in
\* breakdowns, is a date from start_date to end_date of the request.
C23_PeriodsInRange ==
    Returned =>
        \A p \in DataPeriods(response.body.data)
                     \cup DictKeys(response.body.breakdowns) :
            /\ ~ StrLt(p, request.query.start_date)
            /\ ~ StrLt(request.query.end_date, p)

\* C24 (as claimed): AuthMiddleware answers a request that carries a Bearer
\* credential, where it answers it itself, with 401 or 403 only, and admits
\* no caller whose roles claim is not a list holding 'user' or 'admin'.
C24_Only401Or403 ==
    (pc # "idle" /\ ~ IsDocsPath(request.path)
        /\ request.authorization.scheme = "Bearer") =>
        IF state_user = NoUser
        THEN pc = "done" /\ response.status \in {401, 403}
        ELSE CredentialPermitted

\* C26: a call of get_token_usage_aggregated has a session of its own, open
\* while its queries run and closed by exactly one session.close() when the
\* call has returned or raised: after both queries, after a failure of the
\* first query, of the second, or of a row conversion. Outside a call there
\* is no session.
C26_SessionClosedOnce ==
    IF call = NoCall
    THEN session = "none" /\ closes = 0
    ELSE IF pc \in {"usage_query", "breakdown_query"}
    THEN session = "open" /\ closes = 0
    ELSE pc = "done" /\ session = "closed" /\ closes = 1

\* the first query failed: the session of the call has been closed once
C26_Witness ==
    /\ pc = "done"
    /\ response.status = 500
    /\ Len(log) = 2 /\ log[1].exc = "OperationalError"
    /\ rows_at_usage = 0 /\ usage_data = <<>>
    /\ session = "closed" /\ closes = 1

====
